---- MODULE Spec2Model ----
(***************************************************************************)
(* A model of register-k8s.py: one run of the registration script, from    *)
(* argument parsing to process exit.  Every external call (kubernetes      *)
(* client, kubectl subprocess, HTTP POST) is a step whose outcome the      *)
(* environment chooses; what the script does with the outcome is           *)
(* translated from the code.                                               *)
(***************************************************************************)
EXTENDS Integers, Sequences, FiniteSets, TLC

VARIABLES
    pc,             \* position of the run in the script
    argv,           \* what parse_args did with the command line
    args,           \* the parsed argument namespace
    exitCode,       \* exit status of the process, -1 while it runs
    exc,            \* the exception that ended the run or reached the entry point
    cfgLoads,       \* kubernetes config loaders tried
    saReads,        \* read_namespaced_service_account calls
    secrets,        \* sa.secrets as returned by the read
    fetched,        \* read_namespaced_secret calls
    k8sFault,       \* the exception a kubernetes call of the resolver raised
    service_token,  \* result of get_service_account_token
    payload,        \* the payload dict of the entry point
    ciCalls,        \* kubectl cluster-info invocations
    k8s_api_url,    \* result of get_k8s_api_url_from_cluster_info
    posts,          \* requests.post calls
    request,        \* what the POST carried
    response,       \* the local variable response of make_api_request
    out             \* what the run printed, in order

vars == <<pc, argv, args, exitCode, exc, cfgLoads, saReads, secrets, fetched,
          k8sFault, service_token, payload, ciCalls, k8s_api_url, posts,
          request, response, out>>

(***************************************************************************)
(* Bounds of the model.                                                    *)
(***************************************************************************)
MaxSecrets == 3

(***************************************************************************)
(* Values.                                                                 *)
(***************************************************************************)
None == "None"
Unset == "unset"

\* Python truthiness of an optional string: None and "" are falsy.
Truthy(v) == v \notin {None, ""}

SATokenType == "kubernetes.io/service-account-token"
OpaqueType == "Opaque"

NoDict == [k \in {} |-> ""]

\* Faulty variant of SetItem: a fresh dict holding the new key only.
SetItem_fresh(d, k, v) == [x \in {k} |-> v]

\* d[k] = v on a dict: adds the key or overwrites its value, keeps the rest.
SetItem(d, k, v) == [x \in (DOMAIN d) \cup {k} |-> IF x = k THEN v ELSE d[x]]

\* argparse's default=os.environ.get(NAME, dflt): the flag wins, then the
\* environment variable (even when it is set to ""), then the default.
ArgDefault(cli, env, dflt) ==
    IF cli # None THEN cli ELSE IF env # None THEN env ELSE dflt

(***************************************************************************)
(* Inputs the environment can supply.                                      *)
(***************************************************************************)
ApiUrls == {"https://registry.example/api"}
ApiTokens == {"api-token"}
HeaderNames == {"Authorization"}
TokenValues == {"tokA", "tokB"}

PayloadStrings ==
    { "{}",
      "{\"name\":\"x\"}",
      "{\"service_token\":\"mine\"}",
      "{\"name\":\"x\",\"api_address\":\"mine\"}",
      "[]",
      "",
      "not-json" }

\* Faulty variant of json_loads: a decode error is swallowed and {} returned.
json_loads_lenient(str) == [kind |-> "dict", val |-> NoDict]

\* json.loads on the payload strings above: a dict, a value that is no dict,
\* or json.JSONDecodeError.
json_loads(str) ==
    CASE str = "{}" -> [kind |-> "dict", val |-> NoDict]
      [] str = "{\"name\":\"x\"}" ->
            [kind |-> "dict", val |-> ("name" :> "x")]
      [] str = "{\"service_token\":\"mine\"}" ->
            [kind |-> "dict", val |-> ("service_token" :> "mine")]
      [] str = "{\"name\":\"x\",\"api_address\":\"mine\"}" ->
            [kind |-> "dict", val |-> ("name" :> "x") @@ ("api_address" :> "mine")]
      [] str = "[]" -> [kind |-> "list", val |-> NoDict]
      [] OTHER -> [kind |-> "JSONDecodeError", val |-> NoDict]

\* What read_namespaced_secret can answer for one entry of sa.secrets: a
\* secret with a type and a data['token'] (None when the key is missing), or
\* an exception.
SecretAnswers ==
    { [fault |-> "none", type |-> OpaqueType, token |-> "tokA"],
      [fault |-> "none", type |-> SATokenType, token |-> None],
      [fault |-> "none", type |-> SATokenType, token |-> ""],
      [fault |-> "none", type |-> SATokenType, token |-> "tokA"],
      [fault |-> "none", type |-> SATokenType, token |-> "tokB"],
      [fault |-> "ApiException", type |-> None, token |-> None],
      [fault |-> "TransportError", type |-> None, token |-> None] }

SecretLists ==
    UNION { [1..n -> SecretAnswers] : n \in 0..MaxSecrets }

ClusterInfoOutputs ==
    { "Kubernetes control plane is running at https://1.2.3.4:6443",
      "Kubernetes control plane is running at http://10.0.0.1:8080",
      "CoreDNS is running at https://1.2.3.4:6443/api/v1/namespaces/kube-system",
      "" }

\* re.search(r'Kubernetes control plane is running at\s+(https?://.*)', output)
\* followed by match.group(1), on the outputs above; None when nothing matches.
re_search_group1(output) ==
    CASE output = "Kubernetes control plane is running at https://1.2.3.4:6443" ->
            "https://1.2.3.4:6443"
      [] output = "Kubernetes control plane is running at http://10.0.0.1:8080" ->
            "http://10.0.0.1:8080"
      [] OTHER -> None

StatusCodes == {200, 404, 500}
NoResponse == [bound |-> FALSE, status |-> 0, json |-> FALSE]
Responses == [bound : {TRUE}, status : StatusCodes, json : BOOLEAN]

\* response.raise_for_status() raises HTTPError for a 4xx or 5xx status.
RaisesForStatus(resp) == resp.status >= 400 /\ resp.status < 600

\* `if response:` on a requests.Response is response.ok, which is False exactly
\* when raise_for_status() would raise.
ResponseTruthy(resp) == ~RaisesForStatus(resp)

(***************************************************************************)
(* Process exit.                                                           *)
(***************************************************************************)
\* exit(code) after printing msgs.
Exit(code, msgs) ==
    /\ pc' = "done"
    /\ exitCode' = code
    /\ out' = out \o msgs

\* An exception nothing catches: the interpreter prints the traceback and the
\* process ends with status 1.
Crash(e, msgs) ==
    /\ pc' = "done"
    /\ exitCode' = 1
    /\ exc' = e
    /\ out' = out \o msgs \o <<"traceback">>

Init ==
    /\ pc = "parse_args"
    /\ argv = Unset
    /\ args = [api_url |-> Unset, header_name |-> Unset, api_token |-> Unset,
               payload_str |-> Unset, namespace |-> Unset,
               service_account_name |-> Unset]
    /\ exitCode = -1
    /\ exc = "none"
    /\ cfgLoads = 0
    /\ saReads = 0
    /\ secrets = <<>>
    /\ fetched = 0
    /\ k8sFault = "none"
    /\ service_token = Unset
    /\ payload = NoDict
    /\ ciCalls = 0
    /\ k8s_api_url = Unset
    /\ posts = 0
    /\ request = [url |-> Unset, headers |-> NoDict, json |-> NoDict]
    /\ response = NoResponse
    /\ out = <<>>

(***************************************************************************)
(* Entry point, lines 113-130: parse and validate the arguments.           *)
(***************************************************************************)
\* parser.parse_args(): argparse itself ends the process with status 2 on a
\* command line it rejects and with status 0 after printing --help; otherwise
\* every option takes its flag, else its environment variable, else its default.
parse_args ==
    /\ pc = "parse_args"
    /\ \/ /\ argv' = "usage"
          /\ Exit(2, <<"usage">>)
          /\ UNCHANGED args
       \/ /\ argv' = "help"
          /\ Exit(0, <<"help">>)
          /\ UNCHANGED args
       \/ /\ argv' = "ok"
          /\ \E cliUrl \in {None, ""} \cup ApiUrls, envUrl \in {None} \cup ApiUrls,
                cliTok \in {None, ""} \cup ApiTokens, envTok \in {None} \cup ApiTokens,
                cliHdr \in {None} \cup HeaderNames,
                cliPay \in {None} \cup PayloadStrings, envPay \in {None, "not-json"} :
                args' = [api_url |-> ArgDefault(cliUrl, envUrl, None),
                         header_name |-> ArgDefault(cliHdr, None, "X-API-Token"),
                         api_token |-> ArgDefault(cliTok, envTok, None),
                         payload_str |-> ArgDefault(cliPay, envPay, "{}"),
                         namespace |-> ArgDefault(None, None, "default"),
                         service_account_name |-> ArgDefault(None, None, "default")]
          /\ pc' = "validate"
          /\ UNCHANGED <<exitCode, out>>
    /\ UNCHANGED <<exc, cfgLoads, saReads, secrets, fetched, k8sFault,
                   service_token, payload, ciCalls, k8s_api_url, posts,
                   request, response>>

\* Faulty variant of ArgsValid: the token is not checked.
ArgsValid_urlOnly(a) == Truthy(a.api_url)

\* line 128, negated: both the endpoint and its token are given and non-empty.
ArgsValid(a) == Truthy(a.api_url) /\ Truthy(a.api_token)

Validate ==
    /\ pc = "validate"
    /\ IF ArgsValid(args)
         THEN /\ pc' = "load_config"
              /\ UNCHANGED <<exitCode, out>>
         ELSE Exit(1, <<"error_required">>)
    /\ UNCHANGED <<argv, args, exc, cfgLoads, saReads, secrets, fetched, k8sFault,
                   service_token, payload, ciCalls, k8s_api_url, posts,
                   request, response>>

(***************************************************************************)
(* get_service_account_token, lines 9-39.                                  *)
(***************************************************************************)
\* lines 11-14: the in-cluster config, else the kubeconfig; a failure of the
\* second loader is outside every try block.
load_config ==
    /\ pc = "load_config"
    /\ \/ /\ cfgLoads' = 1
          /\ pc' = "read_sa"
          /\ UNCHANGED <<exitCode, exc, out>>
       \/ /\ cfgLoads' = 2
          /\ pc' = "read_sa"
          /\ UNCHANGED <<exitCode, exc, out>>
       \/ /\ cfgLoads' = 2
          /\ Crash("ConfigException", <<>>)
    /\ UNCHANGED <<argv, args, saReads, secrets, fetched, k8sFault,
                   service_token, payload, ciCalls, k8s_api_url, posts,
                   request, response>>

\* Faulty variant of ResolverCatches: no except clause.
ResolverCatches_none(e) == FALSE

\* line 37: the except clause of the resolver names client.ApiException only.
ResolverCatches(e) == e = "ApiException"

\* An exception raised by a kubernetes call inside the try block of lines 18-38:
\* caught, reported and turned into None, or left to end the process.
ResolverRaise(e) ==
    IF ResolverCatches(e)
      THEN /\ k8sFault' = e
           /\ service_token' = None
           /\ pc' = "check_token"
           /\ out' = out \o <<"error_retrieving">>
           /\ UNCHANGED <<exitCode, exc>>
      ELSE /\ k8sFault' = e
           /\ Crash(e, <<>>)
           /\ UNCHANGED service_token

\* lines 19-22 and 34-35: read the service account; no secrets means no token.
\* The chosen list says, for each secret reference of the account in order,
\* what reading that secret will answer.
read_namespaced_service_account ==
    /\ pc = "read_sa"
    /\ saReads' = saReads + 1
    /\ \/ \E e \in {"ApiException", "TransportError"} :
             /\ ResolverRaise(e)
             /\ UNCHANGED secrets
       \/ \E s \in SecretLists :
             /\ secrets' = s
             /\ IF s = <<>>
                  THEN /\ service_token' = None
                       /\ pc' = "check_token"
                       /\ out' = out \o <<"error_no_secrets">>
                  ELSE /\ pc' = "read_secret"
                       /\ UNCHANGED <<service_token, out>>
             /\ UNCHANGED <<exitCode, exc, k8sFault>>
    /\ UNCHANGED <<argv, args, cfgLoads, fetched, payload, ciCalls, k8s_api_url,
                   posts, request, response>>

\* Faulty variant of SecretYieldsToken: the secret type is not checked.
SecretYieldsToken_anyType(s) == Truthy(s.token)

\* lines 26-28: the secret is of the token type and its token is truthy.
SecretYieldsToken(s) == s.type = SATokenType /\ Truthy(s.token)

\* lines 23-33: one turn of the loop over sa.secrets.
read_namespaced_secret ==
    /\ pc = "read_secret"
    /\ fetched < Len(secrets)
    /\ fetched' = fetched + 1
    /\ LET s == secrets[fetched + 1]
           missing == IF s.type = SATokenType THEN <<"error_no_token_in_secret">>
                                              ELSE <<>>
       IN  IF s.fault # "none"
             THEN ResolverRaise(s.fault)
             ELSE /\ IF SecretYieldsToken(s)
                       THEN /\ service_token' = s.token
                            /\ pc' = "check_token"
                            /\ UNCHANGED out
                       ELSE IF fetched + 1 = Len(secrets)
                         THEN /\ service_token' = None
                              /\ pc' = "check_token"
                              /\ out' = out \o missing \o <<"error_no_token_secret">>
                         ELSE /\ pc' = "read_secret"
                              /\ out' = out \o missing
                              /\ UNCHANGED service_token
                  /\ UNCHANGED <<exitCode, exc, k8sFault>>
    /\ UNCHANGED <<argv, args, cfgLoads, saReads, secrets, payload, ciCalls,
                   k8s_api_url, posts, request, response>>

(***************************************************************************)
(* Entry point, lines 132-154: token, payload, address.                    *)
(***************************************************************************)
\* lines 134 and 145-147.
CheckToken ==
    /\ pc = "check_token"
    /\ IF Truthy(service_token)
         THEN /\ pc' = "parse_payload"
              /\ UNCHANGED <<exitCode, out>>
         ELSE Exit(1, <<"failed_token">>)
    /\ UNCHANGED <<argv, args, exc, cfgLoads, saReads, secrets, fetched, k8sFault,
                   service_token, payload, ciCalls, k8s_api_url, posts,
                   request, response>>

\* lines 135-143: json.loads of the payload string, then
\* payload['service_token'] = service_token, which raises TypeError on a
\* parsed value that takes no string key.
ParsePayload ==
    /\ pc = "parse_payload"
    /\ LET r == json_loads(args.payload_str)
       IN  CASE r.kind = "JSONDecodeError" ->
                  /\ Exit(1, <<"error_decoding_payload">>)
                  /\ UNCHANGED <<exc, payload>>
             [] r.kind = "list" ->
                  /\ Crash("TypeError", <<>>)
                  /\ UNCHANGED payload
             [] OTHER ->
                  /\ payload' = SetItem(r.val, "service_token", service_token)
                  /\ pc' = "cluster_info"
                  /\ out' = out \o <<"payload">>
                  /\ UNCHANGED <<exitCode, exc>>
    /\ UNCHANGED <<argv, args, cfgLoads, saReads, secrets, fetched, k8sFault,
                   service_token, ciCalls, k8s_api_url, posts, request, response>>

\* get_k8s_api_url_from_cluster_info, lines 41-68: one kubectl run; a non-zero
\* exit (CalledProcessError), any other exception (kubectl not installed) and
\* an output the pattern does not match all give None.
get_k8s_api_url_from_cluster_info ==
    /\ pc = "cluster_info"
    /\ ciCalls' = ciCalls + 1
    /\ \/ /\ k8s_api_url' = None
          /\ out' = out \o <<"error_running_kubectl">>
       \/ /\ k8s_api_url' = None
          /\ out' = out \o <<"unexpected_error">>
       \/ \E output \in ClusterInfoOutputs :
             /\ k8s_api_url' = re_search_group1(output)
             /\ out' = out \o (IF re_search_group1(output) # None
                                 THEN <<"api_url">> ELSE <<"error_parse_url">>)
    /\ pc' = "check_addr"
    /\ UNCHANGED <<argv, args, exitCode, exc, cfgLoads, saReads, secrets, fetched,
                   k8sFault, service_token, payload, posts, request, response>>

\* Faulty variant of AddressResolved: the result is not checked.
AddressResolved_always(u) == TRUE

\* line 150.
AddressResolved(u) == Truthy(u)

\* lines 150-154.
CheckAddr ==
    /\ pc = "check_addr"
    /\ IF AddressResolved(k8s_api_url)
         THEN /\ payload' = SetItem(payload, "api_address", k8s_api_url)
              /\ pc' = "post"
              /\ UNCHANGED <<exitCode, out>>
         ELSE /\ Exit(1, <<"failed_address">>)
              /\ UNCHANGED payload
    /\ UNCHANGED <<argv, args, exc, cfgLoads, saReads, secrets, fetched, k8sFault,
                   service_token, ciCalls, k8s_api_url, posts, request, response>>

(***************************************************************************)
(* make_api_request, lines 85-110, called from line 157.                   *)
(***************************************************************************)
\* lines 102-109: the handler prints the error, then reads the local variable
\* response: unbound when requests.post raised, falsy when the status is an
\* error status.
HandlerPrints(resp) ==
    <<"error_making_request">> \o
    (IF resp.bound /\ ResponseTruthy(resp)
       THEN <<"response_status_code", "response_content">> ELSE <<>>)

\* The exception that leaves the handler: reading an unbound local raises
\* UnboundLocalError before line 110 re-raises the caught one.
HandlerRaises(resp, caught) ==
    IF resp.bound THEN caught ELSE "UnboundLocalError"

make_api_request ==
    /\ pc = "post"
    /\ posts' = posts + 1
    /\ request' = [url |-> args.api_url,
                   headers |-> (args.header_name :> args.api_token)
                                @@ ("Content-Type" :> "application/json"),
                   json |-> payload]
    /\ \/ /\ UNCHANGED response
          /\ exc' = HandlerRaises(response, "ConnectionError")
          /\ out' = out \o HandlerPrints(response)
          /\ pc' = "main_except"
       \/ \E resp \in Responses :
             /\ response' = resp
             /\ IF RaisesForStatus(resp)
                  THEN /\ exc' = HandlerRaises(resp, "HTTPError")
                       /\ out' = out \o HandlerPrints(resp)
                       /\ pc' = "main_except"
                  ELSE /\ out' = out \o <<"request_successful",
                                          IF resp.json THEN "response_json"
                                                       ELSE "response_text">>
                       /\ pc' = "end"
                       /\ UNCHANGED exc
    /\ UNCHANGED <<argv, args, exitCode, cfgLoads, saReads, secrets, fetched,
                   k8sFault, service_token, payload, ciCalls, k8s_api_url>>

\* Faulty variant of MainExcept: the request is sent again.
MainExcept_retry ==
    /\ pc = "main_except"
    /\ pc' = "post"
    /\ UNCHANGED <<argv, args, exitCode, exc, cfgLoads, saReads, secrets, fetched,
                   k8sFault, service_token, payload, ciCalls, k8s_api_url, posts,
                   request, response, out>>

\* Faulty variant of MainExcept: the failure is reported but the status is 0.
MainExcept_swallow ==
    /\ pc = "main_except"
    /\ Exit(0, <<"error_during_request">>)
    /\ UNCHANGED <<argv, args, exc, cfgLoads, saReads, secrets, fetched, k8sFault,
                   service_token, payload, ciCalls, k8s_api_url, posts,
                   request, response>>

\* lines 158-160: the entry point prints the exception and exits 1.
MainExcept ==
    /\ pc = "main_except"
    /\ Exit(1, <<"error_during_request">>)
    /\ UNCHANGED <<argv, args, exc, cfgLoads, saReads, secrets, fetched, k8sFault,
                   service_token, payload, ciCalls, k8s_api_url, posts,
                   request, response>>

\* The script ends after line 160: status 0.
EndOfScript ==
    /\ pc = "end"
    /\ Exit(0, <<>>)
    /\ UNCHANGED <<argv, args, exc, cfgLoads, saReads, secrets, fetched, k8sFault,
                   service_token, payload, ciCalls, k8s_api_url, posts,
                   request, response>>

Next ==
    \/ parse_args
    \/ Validate
    \/ load_config
    \/ read_namespaced_service_account
    \/ read_namespaced_secret
    \/ CheckToken
    \/ ParsePayload
    \/ get_k8s_api_url_from_cluster_info
    \/ CheckAddr
    \/ make_api_request
    \/ MainExcept
    \/ EndOfScript

Spec == Init /\ [][Next]_vars

(***************************************************************************)
(* Properties.                                                             *)
(***************************************************************************)
Printed(msg) == \E i \in 1..Len(out) : out[i] = msg

Done == pc = "done"

PostSucceeded == posts = 1 /\ response.bound /\ ~RaisesForStatus(response)

\* C1: when the token resolver or the address resolver returned None, no
\* registration POST is ever issued in the run.
C1_NoPostWithoutTokenAndAddress ==
    (service_token = None \/ k8s_api_url = None) => posts = 0

C1_Witness ==
    /\ Done
    /\ service_token \in TokenValues
    /\ ciCalls = 1
    /\ k8s_api_url = None
    /\ posts = 0
    /\ exitCode = 1

\* C2: when the parsed arguments lack a non-empty api_url or api_token, the run
\* goes from validation straight to exit code 1: no kubernetes config load,
\* service-account read or secret read, no cluster-info command and no POST.
C2_ValidationBeforeLookups ==
    (argv = "ok" /\ (args.api_url \in {None, ""} \/ args.api_token \in {None, ""}))
        => /\ pc \in {"validate", "done"}
           /\ cfgLoads = 0 /\ saReads = 0 /\ fetched = 0
           /\ ciCalls = 0 /\ posts = 0
           /\ (Done => exitCode = 1)

C2_Witness ==
    /\ Done
    /\ args.api_url \in ApiUrls
    /\ args.api_token = ""
    /\ exitCode = 1
    /\ Printed("error_required")

MalformedPayloads == {"", "not-json"}

\* C3 as claimed: a run whose payload string is empty or no JSON exits 1 before
\* any network call, the kubernetes calls of the credential resolver included.
C3_NoNetworkCallAtAll ==
    args.payload_str \in MalformedPayloads
        => /\ saReads = 0 /\ fetched = 0 /\ ciCalls = 0 /\ posts = 0
           /\ (Done => exitCode = 1)

\* C3 amended: a run whose payload string is empty or no JSON exits 1 before
\* the cluster-info command and the registration POST are attempted; the
\* kubernetes calls of the credential resolver come before the payload is parsed.
C3_NoAddressLookupNoPost ==
    args.payload_str \in MalformedPayloads
        => /\ ciCalls = 0 /\ posts = 0
           /\ (Done => exitCode = 1)

C3_Witness ==
    /\ Done
    /\ args.payload_str = "not-json"
    /\ service_token \in TokenValues
    /\ saReads = 1 /\ fetched >= 1
    /\ Printed("error_decoding_payload")
    /\ exitCode = 1

\* C4: after the endpoint answered the POST with an error status, the run has
\* printed the response status code and the response body and exits 1.
C4_ErrorStatusIsPrinted ==
    (Done /\ posts = 1 /\ response.bound /\ RaisesForStatus(response))
        => /\ Printed("response_status_code")
           /\ Printed("response_content")
           /\ exitCode = 1

\* C5: after a POST that failed with no response received, make_api_request
\* has printed the error and the exception the entry point reports is that
\* same request failure; the run exits 1.
C5_TransportFailureIsReraised ==
    (Done /\ posts = 1 /\ ~response.bound)
        => /\ Printed("error_making_request")
           /\ exc = "ConnectionError"
           /\ exitCode = 1

ExitCodeRule ==
    /\ exitCode \in {0, 1}
    /\ exitCode = 0 <=> PostSucceeded

\* C6 as claimed: every run goes on until it exits, and exits with code 0 or 1,
\* 0 exactly when the POST was sent and answered with a success status.
C6_EveryRunExitsZeroOrOne ==
    /\ Done \/ ENABLED Next
    /\ Done => ExitCodeRule

\* C6 amended: every run goes on until it exits, and one whose command line the
\* argument parser accepted exits with code 0 or 1, 0 exactly when the POST was
\* sent and answered with a success status (the parser itself exits 2 on a
\* usage error, 0 after --help).
C6_ParsedRunExitsZeroOrOne ==
    /\ Done \/ ENABLED Next
    /\ (Done /\ argv = "ok") => ExitCodeRule

C6_Witness ==
    /\ Done
    /\ argv = "ok"
    /\ PostSucceeded
    /\ exitCode = 0

\* A secret qualifies when it is of the service-account-token type and has a
\* non-empty token.
Qualifies(s) ==
    /\ s.fault = "none"
    /\ s.type = "kubernetes.io/service-account-token"
    /\ s.token \in TokenValues

QualifyingAt(list) == {i \in 1..Len(list) : Qualifies(list[i])}

FirstQualifying(list) ==
    CHOOSE i \in QualifyingAt(list) : \A j \in QualifyingAt(list) : i <= j

\* C7: once the resolver has returned without a kubernetes fault, its result is
\* the token of the first qualifying secret in list order and no secret after
\* that one was read; it is None, with every secret read, when none qualifies.
C7_FirstMatchWins ==
    (service_token # Unset /\ saReads = 1 /\ k8sFault = "none")
        => IF QualifyingAt(secrets) = {}
             THEN service_token = None /\ fetched = Len(secrets)
             ELSE /\ service_token = secrets[FirstQualifying(secrets)].token
                  /\ fetched = FirstQualifying(secrets)

C7_Witness ==
    /\ Len(secrets) = 3
    /\ secrets[1] = [fault |-> "none", type |-> OpaqueType, token |-> "tokA"]
    /\ secrets[2] = [fault |-> "none", type |-> SATokenType, token |-> "tokB"]
    /\ secrets[3] = [fault |-> "none", type |-> SATokenType, token |-> "tokA"]
    /\ service_token = "tokB"
    /\ fetched = 2

\* C8: an ApiException raised by the service-account read or by any secret
\* read is caught in the resolver, which returns None; the run then exits 1
\* with no cluster-info command and no POST.
C8_ApiFaultIsCaught ==
    k8sFault = "ApiException"
        => /\ service_token = None
           /\ exc = "none"
           /\ pc \in {"check_token", "done"}
           /\ ciCalls = 0 /\ posts = 0
           /\ (Done => exitCode = 1)

C8_Witness ==
    /\ Done
    /\ k8sFault = "ApiException"
    /\ fetched = 3
    /\ service_token = None
    /\ Printed("error_retrieving")
    /\ exitCode = 1

CallerPayload == json_loads(args.payload_str).val

\* C9 as claimed: the body of the POST holds every key of the caller payload
\* with its original value, plus the token under service_token and the address
\* under api_address.
C9_EveryCallerKeyKept ==
    posts = 1
        => /\ DOMAIN request.json = DOMAIN CallerPayload \cup {"service_token", "api_address"}
           /\ \A k \in DOMAIN CallerPayload : request.json[k] = CallerPayload[k]
           /\ request.json["service_token"] = service_token
           /\ request.json["api_address"] = k8s_api_url

\* C9 amended: the body of the POST holds every key of the caller payload other
\* than service_token and api_address with its original value, plus the token
\* under service_token and the address under api_address, which replace a
\* caller value under those two keys.
C9_OtherCallerKeysKept ==
    posts = 1
        => /\ DOMAIN request.json = DOMAIN CallerPayload \cup {"service_token", "api_address"}
           /\ \A k \in DOMAIN CallerPayload \ {"service_token", "api_address"} :
                 request.json[k] = CallerPayload[k]
           /\ request.json["service_token"] = service_token
           /\ request.json["api_address"] = k8s_api_url

C9_Witness ==
    /\ posts = 1
    /\ args.payload_str = "{\"name\":\"x\",\"api_address\":\"mine\"}"
    /\ request.json["name"] = "x"
    /\ request.json["service_token"] \in TokenValues
    /\ request.json["api_address"] = "https://1.2.3.4:6443"

\* C10 as claimed: in any run each external call is attempted exactly once
\* (stated for the runs whose command line was accepted).
C10_ExactlyOnceInAnyRun ==
    (Done /\ argv = "ok") => saReads = 1 /\ ciCalls = 1 /\ posts = 1

\* C10 amended: in any run each external call is attempted at most once,
\* exactly once in a run that gets to it, and none is attempted again after it
\* failed; each secret of the account is read at most once.
C10_AtMostOnceNoRetry ==
    /\ saReads <= 1 /\ ciCalls <= 1 /\ posts <= 1
    /\ fetched <= Len(secrets)
    /\ (service_token # Unset => saReads = 1)
    /\ (k8s_api_url # Unset => ciCalls = 1)
    /\ (pc \in {"main_except", "end"} => posts = 1)
    /\ (Done /\ exc \in {"ConnectionError", "HTTPError", "UnboundLocalError"} => posts = 1)

C10_Witness ==
    /\ Done
    /\ exc = "HTTPError"
    /\ saReads = 1 /\ ciCalls = 1 /\ posts = 1
    /\ exitCode = 1

====
